---- MODULE Spec2Model ----
(***************************************************************************)
(* Model of utils/processImagesToJson.go: ReadAndForward, BatchProcess,    *)
(* processBatch and getImageResolutionAndOrientation.                      *)
(*                                                                         *)
(* Strings that the code takes apart (file names, paths, format labels)    *)
(* are sequences of one-character strings; opaque strings are TLA+ strings.*)
(***************************************************************************)
EXTENDS Integers, Sequences, FiniteSets, Bags, TLC

VARIABLES
    dir,          \* what the image folder holds (sorted by name, as os.ReadDir lists it)
    imageFolder,  \* ReadAndForward parameter
    folderURL,    \* ReadAndForward parameter
    batchSize,    \* ReadAndForward / BatchProcess parameter
    files,        \* the []os.DirEntry handed to BatchProcess
    pc,           \* position of the calling goroutine
    i,            \* BatchProcess: dispatch loop index
    workers,      \* the processBatch goroutines, in spawn order
    wg,           \* sync.WaitGroup counter
    results,      \* buffered channel: queued Flyers
    closed,       \* results has been closed
    coord,        \* position of the anonymous wg.Wait/close goroutine
    flyers,       \* BatchProcess: the slice being collected
    ret,          \* BatchProcess return value
    metadata,     \* ReadAndForward: Metadata value
    jsonData,     \* ReadAndForward: marshalled FlyersData
    metaJsonData, \* ReadAndForward: marshalled Metadata
    disk,         \* flyers.json and imagesMetadata.json
    err,          \* ReadAndForward return value
    handles,      \* number of open *os.File
    panicked,     \* a goroutine panicked (send on / close of a closed channel)
    sent,         \* history: every Flyer sent on results, in send order
    inspected,    \* history: indices of files on which the inspector was called
    runs,         \* TestBatchProcess: results of the earlier sub-tests
    rt,           \* TestFlyer / TestMetadata: the value, its JSON, the value read back
    hung,         \* indices of the files whose image.Decode never returns
    seq           \* the sequential variant of main.go: its loop position and its list

vars == <<dir, imageFolder, folderURL, batchSize, files, pc, i, workers, wg,
          results, closed, coord, flyers, ret, metadata, jsonData,
          metaJsonData, disk, err, handles, panicked, sent, inspected, runs, rt,
          hung, seq>>

----------------------------------------------------------------------------
(* Bounds *)

MaxFiles == 3
MaxRuns == 2

MaxBatch == MaxFiles + 1

\* the goroutines that the dispatch loop may start before the model stops it
\* (a loop whose index does not advance starts them without end)
MaxWorkers == MaxFiles + 1

----------------------------------------------------------------------------
(* Strings *)

Separator == "/"

\* strings.ToUpper on the characters that occur in the file names
UpperChar(c) ==
    CASE c = "j" -> "J" [] c = "p" -> "P" [] c = "g" -> "G" [] c = "n" -> "N"
      [] c = "t" -> "T" [] c = "x" -> "X" [] c = "a" -> "A" [] c = "b" -> "B"
      [] c = "c" -> "C" [] c = "d" -> "D" [] c = "e" -> "E" [] c = "i" -> "I"
      [] OTHER -> c

ToUpper(s) == [k \in 1..Len(s) |-> UpperChar(s[k])]

HasPrefix(s, p) == Len(s) >= Len(p) /\ SubSeq(s, 1, Len(p)) = p

HasSuffix(s, p) == Len(s) >= Len(p) /\ SubSeq(s, Len(s) - Len(p) + 1, Len(s)) = p

TrimPrefix(s, p) == IF HasPrefix(s, p) THEN SubSeq(s, Len(p) + 1, Len(s)) ELSE s

TrimSuffix(s, p) == IF HasSuffix(s, p) THEN SubSeq(s, 1, Len(s) - Len(p)) ELSE s

\* filepath.Ext: the suffix beginning at the final dot of the final path element
RECURSIVE ExtFrom(_, _)
ExtFrom(path, j) ==
    IF j = 0 \/ path[j] = Separator THEN <<>>
    ELSE IF path[j] = "." THEN SubSeq(path, j, Len(path))
    ELSE ExtFrom(path, j - 1)

Ext(path) == ExtFrom(path, Len(path))

\* filepath.Clean, as far as Join needs it here: runs of separators collapse
RECURSIVE Clean(_)
Clean(p) ==
    IF Len(p) < 2 THEN p
    ELSE IF p[1] = Separator /\ p[2] = Separator THEN Clean(Tail(p))
    ELSE <<p[1]>> \o Clean(Tail(p))

\* filepath.Join of two elements
Join(a, b) ==
    IF a = <<>> THEN Clean(b)
    ELSE IF b = <<>> THEN Clean(a)
    ELSE Clean(a \o <<Separator>> \o b)

\* filepath.ToSlash
ToSlash(p) == [k \in 1..Len(p) |-> IF p[k] = Separator THEN "/" ELSE p[k]]

----------------------------------------------------------------------------
(* The directory *)

\* decoders registered with package image in the builds of this repository
Registered == {"jpeg", "png"}

\* A directory entry: name, IsDir, and what the file holds:
\*   readable - os.Open succeeds;  codec - what the content sniffs as;
\*   w, h - the bounds of the decoded image.
Universe ==
    << [name |-> <<"a", ".", "j", "p", "g">>, isDir |-> FALSE, readable |-> TRUE,
        codec |-> "jpeg", w |-> 2, h |-> 1],
       [name |-> <<"a", ".", "p", "n", "g">>, isDir |-> FALSE, readable |-> TRUE,
        codec |-> "png", w |-> 1, h |-> 2],
       [name |-> <<"b", ".", "t", "x", "t">>, isDir |-> FALSE, readable |-> TRUE,
        codec |-> "none", w |-> 0, h |-> 0],
       [name |-> <<"c">>, isDir |-> TRUE, readable |-> TRUE,
        codec |-> "none", w |-> 0, h |-> 0],
       [name |-> <<"d", ".", "j", "p", "g">>, isDir |-> FALSE, readable |-> FALSE,
        codec |-> "jpeg", w |-> 2, h |-> 2],
       [name |-> <<"e", ".", "j", "p", "g">>, isDir |-> FALSE, readable |-> TRUE,
        codec |-> "png", w |-> 1, h |-> 1] >>

\* the entries of Universe picked by the index set S, in name order
RECURSIVE Pick(_, _)
Pick(S, k) ==
    IF k > Len(Universe) THEN <<>>
    ELSE (IF k \in S THEN <<Universe[k]>> ELSE <<>>) \o Pick(S, k + 1)

Listings ==
    {Pick(S, 1) : S \in {T \in SUBSET (1..Len(Universe)) : Cardinality(T) <= MaxFiles}}

ImageFolders == {<<"i", "/">>}

FolderURLs == {<<"u">>, <<"v", "/", "i">>}

----------------------------------------------------------------------------
(* getImageResolutionAndOrientation *)

\* os.Open(imagePath) succeeds (a directory can be opened as well)
OpenOK(f) == f.readable

\* image.Decode: the content is sniffed against the registered decoders;
\* reading from a directory fails
DecodeOK(f) == ~f.isDir /\ f.codec \in Registered

\* mutant: the label is the name of the codec that decoded the content
FormatLabelOfCodec(imagePath, format) ==
    IF format = "png" THEN <<"P", "N", "G">> ELSE <<"J", "P", "E", "G">>

\* the fileExt result; format is the second result of image.Decode, which
\* the code discards
FormatLabel(imagePath, format) ==
    LET fileExt == ToUpper(TrimPrefix(Ext(imagePath), <<".">>))
    IN  IF fileExt = <<"J", "P", "G">> THEN <<"J", "P", "E", "G">> ELSE fileExt

\* mutant: a square image counts as landscape
OrientationSquareLandscape(width, height) ==
    IF width >= height THEN "landscape" ELSE "portrait"

Orientation(width, height) ==
    IF width > height THEN "landscape" ELSE "portrait"

\* the five results of getImageResolutionAndOrientation
GetImageResolutionAndOrientation(imagePath, f) ==
    IF ~OpenOK(f) THEN
        [width |-> 0, height |-> 0, fileExt |-> <<>>, orientation |-> "", err |-> "open"]
    ELSE IF ~DecodeOK(f) THEN
        [width |-> 0, height |-> 0, fileExt |-> <<>>, orientation |-> "", err |-> "decode"]
    ELSE
        [width |-> f.w, height |-> f.h, fileExt |-> FormatLabel(imagePath, f.codec),
         orientation |-> Orientation(f.w, f.h), err |-> "nil"]

\* mutant: a read that takes too long is given up, image.Decode returns an error
DecodeReturnsOnTimeout(k, h) == TRUE

\* image.Decode(file) on the file at index k returns: the read has no
\* deadline, so on a file whose read blocks (h holds the indices of these)
\* it does not
DecodeReturns(k, h) == k \notin h

\* mutant: the file is closed on the success path only
FileCloseOnSuccess(n, e) == IF e = "nil" THEN n - 1 ELSE n

\* defer file.Close(): runs on every return that follows a successful
\* os.Open, whatever the error e returned; n is the number of open files
FileClose(n, e) == n - 1

----------------------------------------------------------------------------
(* processBatch *)

\* mutant: the url is built from the folder URL of the caller
MakeFlyerUnderFolderURL(fileName, imagePath, r) ==
    [ID |-> TrimSuffix(fileName, Ext(fileName)),
     Design |-> [TemplateID |-> "template1",
                 Resolution |-> [Width |-> r.width, Height |-> r.height, Unit |-> "px"],
                 Type |-> "image",
                 Tags |-> <<"">>,
                 FileFormat |-> r.fileExt,
                 Orientation |-> r.orientation],
     Language |-> "en-US",
     URL |-> ToSlash(Join(folderURL, fileName))]

\* the Flyer literal of processBatch
MakeFlyer(fileName, imagePath, r) ==
    [ID |-> TrimSuffix(fileName, Ext(fileName)),
     Design |-> [TemplateID |-> "template1",
                 Resolution |-> [Width |-> r.width, Height |-> r.height, Unit |-> "px"],
                 Type |-> "image",
                 Tags |-> <<"">>,
                 FileFormat |-> r.fileExt,
                 Orientation |-> r.orientation],
     Language |-> "en-US",
     URL |-> ToSlash(imagePath)]

NoFlyer == [ID |-> <<>>]

\* mutant: directories are handed to the inspector
SkipEntryNever(f) == FALSE

\* if file.IsDir() { continue }
SkipEntry(f) == f.isDir

\* mutant: the error branch leaves the loop
AfterErrorBreak(k, n) == n

\* the range position after `continue` in the error branch: k is the number
\* of completed iterations, n the length of the chunk
AfterError(k, n) == k + 1

\* a goroutine running processBatch(files[lo:hi], ...)
NewWorker(lo, hi) == [lo |-> lo, hi |-> hi, k |-> 0, pc |-> "range", flyer |-> NoFlyer]

\* mutant: the worker walks its chunk from the last entry to the first
CurBackwards(w) == workers[w].hi - workers[w].k

\* the index into files (from 1) of the entry worker w is at
Cur(w) == workers[w].lo + workers[w].k + 1

\* top of the range loop on a directory entry or on a file: skip the
\* directory; otherwise build imagePath and enter the inspector up to os.Open
WorkerRange(w) ==
    /\ workers[w].pc = "range"
    /\ workers[w].k < workers[w].hi - workers[w].lo
    /\ LET f == files[Cur(w)]
           n == workers[w].hi - workers[w].lo
       IN  IF SkipEntry(f) THEN
               /\ workers' = [workers EXCEPT ![w].k = @ + 1]
               /\ UNCHANGED <<handles, inspected>>
           ELSE IF ~OpenOK(f) THEN
               /\ workers' = [workers EXCEPT ![w].k = AfterError(@, n)]
               /\ inspected' = inspected \cup {Cur(w)}
               /\ UNCHANGED handles
           ELSE
               /\ workers' = [workers EXCEPT ![w].pc = "decode"]
               /\ inspected' = inspected \cup {Cur(w)}
               /\ handles' = handles + 1
    /\ UNCHANGED <<dir, hung, seq, imageFolder, folderURL, batchSize, files, pc, i, wg,
                   results, closed, coord, flyers, ret, metadata, jsonData,
                   metaJsonData, disk, err, panicked, sent, runs>>

\* image.Decode to the return of the inspector (the deferred file.Close
\* runs), then the error check and the Flyer literal
WorkerDecode(w) ==
    /\ workers[w].pc = "decode"
    /\ DecodeReturns(Cur(w), hung)
    /\ \E f \in {files[Cur(w)]} :
       \E imagePath \in {Join(imageFolder, f.name)} :
       \E r \in {GetImageResolutionAndOrientation(imagePath, f)} :
           /\ IF r.err # "nil" THEN
                  workers' = [workers EXCEPT ![w].pc = "range",
                                             ![w].k = AfterError(@, workers[w].hi - workers[w].lo)]
              ELSE
                  workers' = [workers EXCEPT ![w].pc = "send",
                                             ![w].flyer = MakeFlyer(f.name, imagePath, r)]
           /\ handles' = FileClose(handles, r.err)
    /\ UNCHANGED <<dir, hung, seq, imageFolder, folderURL, batchSize, files, pc, i, wg,
                   results, closed, coord, flyers, ret, metadata, jsonData,
                   metaJsonData, disk, err, panicked, sent, inspected, runs>>

\* mutant: the channel buffers a single Flyer
ChanCapOne(n) == 1

\* make(chan Flyer, len(files)): the capacity of results, n being len(files)
ChanCap(n) == n

\* mutant: a send that does not wait: the Flyer is dropped unless the buffer
\* is empty
ChanSendLossy(queue, f) == IF queue = <<>> THEN <<f>> ELSE queue

\* the buffer of results after results <- f
ChanSend(queue, f) == Append(queue, f)

\* results <- Flyer: blocks while the buffer (capacity len(files)) is full,
\* panics on a closed channel
WorkerSend(w) ==
    /\ workers[w].pc = "send"
    /\ closed \/ Len(results) < ChanCap(Len(files))
    /\ IF closed THEN
           /\ panicked' = TRUE
           /\ workers' = [workers EXCEPT ![w].pc = "panic"]
           /\ UNCHANGED <<results, sent>>
       ELSE
           /\ results' = ChanSend(results, workers[w].flyer)
           /\ sent' = Append(sent, workers[w].flyer)
           /\ workers' = [workers EXCEPT ![w].pc = "range", ![w].k = @ + 1,
                                         ![w].flyer = NoFlyer]
           /\ UNCHANGED panicked
    /\ UNCHANGED <<dir, hung, seq, imageFolder, folderURL, batchSize, files, pc, i, wg,
                   closed, coord, flyers, ret, metadata, jsonData,
                   metaJsonData, disk, err, handles, inspected, runs>>

\* mutant: the worker returns without signalling completion
WgDoneMissing(n) == n

\* wg.Done()
WgDone(n) == n - 1

\* the range loop is over: the deferred wg.Done() runs
WorkerDone(w) ==
    /\ workers[w].pc = "range"
    /\ workers[w].k >= workers[w].hi - workers[w].lo
    /\ workers' = [workers EXCEPT ![w].pc = "done"]
    /\ wg' = WgDone(wg)
    /\ UNCHANGED <<dir, hung, seq, imageFolder, folderURL, batchSize, files, pc, i,
                   results, closed, coord, flyers, ret, metadata, jsonData,
                   metaJsonData, disk, err, handles, panicked, sent, inspected, runs>>

----------------------------------------------------------------------------
(* BatchProcess *)

Min(a, b) == IF a < b THEN a ELSE b

\* mutant: the chunk reaches one entry into the next chunk
ChunkEndOverlap(lo, size, n) == Min(lo + size + 1, n)

\* mutant: the end is taken as the index of the last entry of the chunk
ChunkEndInclusive(lo, size, n) == Min(lo + size - 1, n)

\* end := i + batchSize; if end > len(files) { end = len(files) }
ChunkEnd(lo, size, n) == Min(lo + size, n)

\* mutant: a batch size below one is taken as one when the index advances
NextChunkAtLeastOne(lo, size) == IF size < 1 THEN lo + 1 ELSE lo + size

\* mutant: the loop steps over one entry between two chunks
NextChunkSkip(lo, size) == lo + size + 1

\* i += batchSize
NextChunk(lo, size) == lo + size

\* mutant: the counter is not incremented for the new goroutine
WgAddMissing(n) == n

\* wg.Add(1)
WgAdd(n) == n + 1

\* one iteration of the dispatch loop: wg.Add(1); go processBatch(files[i:end], ...);
\* the slice expression files[i:end] panics when end is below i
Dispatch ==
    /\ pc = "dispatch"
    /\ i < Len(files)
    /\ Len(workers) < MaxWorkers
    /\ IF ChunkEnd(i, batchSize, Len(files)) < i THEN
           /\ panicked' = TRUE
           /\ wg' = WgAdd(wg)
           /\ UNCHANGED <<workers, i>>
       ELSE
           /\ workers' = Append(workers, NewWorker(i, ChunkEnd(i, batchSize, Len(files))))
           /\ wg' = WgAdd(wg)
           /\ i' = NextChunk(i, batchSize)
           /\ UNCHANGED panicked
    /\ UNCHANGED <<dir, hung, seq, imageFolder, folderURL, batchSize, files, pc,
                   results, closed, coord, flyers, ret, metadata, jsonData,
                   metaJsonData, disk, err, handles, sent, inspected, runs>>

\* the dispatch loop ends; go func() { wg.Wait(); close(results) }()
StartCoordinator ==
    /\ pc = "dispatch"
    /\ i >= Len(files)
    /\ coord' = "wait"
    /\ pc' = "drain"
    /\ UNCHANGED <<dir, hung, seq, imageFolder, folderURL, batchSize, files, i, workers, wg,
                   results, closed, flyers, ret, metadata, jsonData,
                   metaJsonData, disk, err, handles, panicked, sent, inspected, runs>>

\* mutant: the coordinator closes the channel without waiting
WaitReturnsAtOnce(n) == TRUE

\* wg.Wait() returns when the counter is zero
WaitReturns(n) == n = 0

CoordWait ==
    /\ coord = "wait"
    /\ WaitReturns(wg)
    /\ coord' = "close"
    /\ UNCHANGED <<dir, hung, seq, imageFolder, folderURL, batchSize, files, pc, i, workers, wg,
                   results, closed, flyers, ret, metadata, jsonData,
                   metaJsonData, disk, err, handles, panicked, sent, inspected, runs>>

\* close(results); closing a closed channel panics
CoordClose ==
    /\ coord = "close"
    /\ coord' = "done"
    /\ closed' = TRUE
    /\ panicked' = (panicked \/ closed)
    /\ UNCHANGED <<dir, hung, seq, imageFolder, folderURL, batchSize, files, pc, i, workers, wg,
                   results, flyers, ret, metadata, jsonData,
                   metaJsonData, disk, err, handles, sent, inspected, runs>>

\* for flyer := range results: the loop ends when the channel is closed and empty
RangeEnds(queue, isClosed) == isClosed /\ queue = <<>>

\* mutant: the new Flyer is put in front
AppendFlyerInFront(fl, f) == <<f>> \o fl

\* mutant: a Flyer whose id is already collected is dropped
AppendFlyerUniqueID(fl, f) ==
    IF \E k \in 1..Len(fl) : fl[k].ID = f.ID THEN fl ELSE Append(fl, f)

\* flyers = append(flyers, flyer)
AppendFlyer(fl, f) == Append(fl, f)

\* one iteration of the collecting loop: flyers = append(flyers, flyer)
Collect ==
    /\ pc = "drain"
    /\ results # <<>>
    /\ flyers' = AppendFlyer(flyers, Head(results))
    /\ results' = Tail(results)
    /\ UNCHANGED <<dir, hung, seq, imageFolder, folderURL, batchSize, files, pc, i, workers, wg,
                   closed, coord, ret, metadata, jsonData,
                   metaJsonData, disk, err, handles, panicked, sent, inspected, runs>>

NoRet == [flyers |-> <<>>, err |-> "none"]

\* mutant: skipped files are reported as an error
BatchProcessReturnStrict(fl, n) ==
    [flyers |-> fl, err |-> IF Len(fl) < n THEN "skipped files" ELSE "nil"]

\* return flyers, nil (n is len(files))
BatchProcessReturn(fl, n) == [flyers |-> fl, err |-> "nil"]

Return ==
    /\ pc = "drain"
    /\ RangeEnds(results, closed)
    /\ ret' = BatchProcessReturn(flyers, Len(files))
    /\ pc' = "returned"
    /\ UNCHANGED <<dir, hung, seq, imageFolder, folderURL, batchSize, files, i, workers, wg,
                   results, closed, coord, flyers, metadata, jsonData,
                   metaJsonData, disk, err, handles, panicked, sent, inspected, runs>>

----------------------------------------------------------------------------
(* ReadAndForward *)

\* mutant: the os.ReadDir error is not checked
AfterReadDirUnchecked(ok) == "dispatch"

\* where ReadAndForward goes after os.ReadDir
AfterReadDir(ok) == IF ok THEN "dispatch" ELSE "done"

\* files, err := os.ReadDir(imageFolder), the error return, and the call
\* of BatchProcess up to its dispatch loop
ReadDir ==
    /\ pc = "readdir"
    /\ \E ok \in BOOLEAN :
         /\ files' = IF ok THEN dir ELSE <<>>
         /\ err' = IF ok THEN err ELSE "error reading directory"
         /\ pc' = AfterReadDir(ok)
    /\ UNCHANGED <<dir, hung, seq, imageFolder, folderURL, batchSize, i, workers, wg,
                   results, closed, coord, flyers, ret, metadata, jsonData,
                   metaJsonData, disk, handles, panicked, sent, inspected, runs>>

\* mutant: the directory entries are counted
TotalFlyersOfListing(fl, listing) == Len(listing)

\* TotalFlyers: len(flyers)
TotalFlyers(fl, listing) == Len(fl)

NoMetadata == [Version |-> ""]

\* the Metadata literal; LastUpdated is the clock reading, kept abstract
MakeMetadata(fl, listing, url) ==
    [Version |-> "1.0",
     LastUpdated |-> "now",
     TotalFlyers |-> TotalFlyers(fl, listing),
     URL |-> url,
     Schema |-> [Format |-> "JSON", Encoding |-> "UTF-8", Filetype |-> "text"]]

\* a byte that is not part of a valid UTF-8 sequence, and U+FFFD
InvalidByte == "\\xff"

ReplacementChar == "\\ufffd"

\* encoding/json on a string: invalid UTF-8 bytes are written as U+FFFD
JSONString(str) ==
    [k \in 1..Len(str) |-> IF str[k] = InvalidByte THEN ReplacementChar ELSE str[k]]

\* encoding/json on a []string: a nil slice (written <<>>) encodes as null,
\* any other as an array
TagsJSON(tags) ==
    IF tags = <<>> THEN [kind |-> "null"] ELSE [kind |-> "array", items |-> tags]

\* mutant: the language is written under a key that Flyer has no tag for
FlyerJSONLanguageKey(f) ==
    [id |-> JSONString(f.ID),
     design |-> [templateId |-> f.Design.TemplateID,
                 resolution |-> [width |-> f.Design.Resolution.Width,
                                 height |-> f.Design.Resolution.Height,
                                 unit |-> f.Design.Resolution.Unit],
                 type |-> f.Design.Type,
                 tags |-> TagsJSON(f.Design.Tags),
                 fileFormat |-> JSONString(f.Design.FileFormat),
                 orientation |-> f.Design.Orientation],
     language |-> f.Language,
     url |-> JSONString(f.URL)]

\* encoding/json on a Flyer: an object keyed by the json tags of the struct
FlyerJSON(f) ==
    [id |-> JSONString(f.ID),
     design |-> [templateId |-> f.Design.TemplateID,
                 resolution |-> [width |-> f.Design.Resolution.Width,
                                 height |-> f.Design.Resolution.Height,
                                 unit |-> f.Design.Resolution.Unit],
                 type |-> f.Design.Type,
                 tags |-> TagsJSON(f.Design.Tags),
                 fileFormat |-> JSONString(f.Design.FileFormat),
                 orientation |-> f.Design.Orientation],
     lang |-> f.Language,
     url |-> JSONString(f.URL)]

\* encoding/json on a []Flyer: a nil slice (nothing was appended) encodes
\* as null, any other as an array
FlyersJSON(fl) ==
    IF fl = <<>> THEN [kind |-> "null"]
    ELSE [kind |-> "array", items |-> [k \in 1..Len(fl) |-> FlyerJSON(fl[k])]]

\* json.MarshalIndent(FlyersData, "", "  "): the document, as the JSON value
\* the text denotes
MarshalFlyersData(fl) == [Flyers |-> FlyersJSON(fl)]

\* json.MarshalIndent(metadata, "", " ")
MarshalMetadata(m) ==
    [version |-> m.Version,
     lastUpdated |-> m.LastUpdated,
     totalFlyers |-> m.TotalFlyers,
     url |-> JSONString(m.URL),
     schema |-> [format |-> m.Schema.Format, encoding |-> m.Schema.Encoding,
                 filetype |-> m.Schema.Filetype]]

\* json.Unmarshal on a struct field: a key the object lacks leaves the zero value
Field(obj, key, zero) == IF key \in DOMAIN obj THEN obj[key] ELSE zero

\* json.Unmarshal into a []string: null gives the nil slice
UnmarshalTags(v) == IF v.kind = "null" THEN <<>> ELSE v.items

\* json.Unmarshal into a Flyer
UnmarshalFlyer(obj) ==
    LET none == [kind |-> "null"]
        d == Field(obj, "design", none)
        r == Field(d, "resolution", none)
    IN  [ID |-> Field(obj, "id", <<>>),
         Design |-> [TemplateID |-> Field(d, "templateId", ""),
                     Resolution |-> [Width |-> Field(r, "width", 0),
                                     Height |-> Field(r, "height", 0),
                                     Unit |-> Field(r, "unit", "")],
                     Type |-> Field(d, "type", ""),
                     Tags |-> UnmarshalTags(Field(d, "tags", none)),
                     FileFormat |-> Field(d, "fileFormat", <<>>),
                     Orientation |-> Field(d, "orientation", "")],
         Language |-> Field(obj, "lang", ""),
         URL |-> Field(obj, "url", <<>>)]

\* json.Unmarshal into a Metadata
UnmarshalMetadata(obj) ==
    LET none == [kind |-> "null"]
        sch == Field(obj, "schema", none)
    IN  [Version |-> Field(obj, "version", ""),
         LastUpdated |-> Field(obj, "lastUpdated", ""),
         TotalFlyers |-> Field(obj, "totalFlyers", 0),
         URL |-> Field(obj, "url", <<>>),
         Schema |-> [Format |-> Field(sch, "format", ""),
                     Encoding |-> Field(sch, "encoding", ""),
                     Filetype |-> Field(sch, "filetype", "")]]

NoData == [file |-> "none"]

\* BatchProcess has returned: the error check, the Metadata and FlyersData
\* literals and the two json.MarshalIndent calls (which cannot fail on
\* these types)
BuildDocuments ==
    /\ pc = "returned"
    /\ IF ret.err # "nil" THEN
           /\ err' = "error processing files"
           /\ pc' = "done"
           /\ UNCHANGED <<metadata, jsonData, metaJsonData>>
       ELSE
           /\ metadata' = MakeMetadata(ret.flyers, files, folderURL)
           /\ jsonData' = MarshalFlyersData(ret.flyers)
           /\ metaJsonData' = MarshalMetadata(metadata')
           /\ pc' = "writeFlyers"
           /\ UNCHANGED err
    /\ UNCHANGED <<dir, hung, seq, imageFolder, folderURL, batchSize, files, i, workers, wg,
                   results, closed, coord, flyers, ret, disk,
                   handles, panicked, sent, inspected, runs>>

\* what os.WriteFile leaves behind: the data; the old content when the file
\* could not be opened; a truncated file when the write itself failed
WriteOutcomes == {"ok", "open failed", "write failed"}

\* a file that is not there, one left by an earlier run, one cut short
Absent == [file |-> "absent"]

Stale == [file |-> "stale"]

Truncated == [file |-> "truncated"]

Written(old, data, outcome) ==
    CASE outcome = "ok" -> data
      [] outcome = "open failed" -> old
      [] OTHER -> Truncated

\* mutant: the error of the first write is not checked
AfterWriteFlyersUnchecked(outcome) == "writeMeta"

\* where ReadAndForward goes after writing flyers.json
AfterWriteFlyers(outcome) == IF outcome = "ok" THEN "writeMeta" ELSE "done"

\* os.WriteFile("flyers.json", jsonData, 0644)
WriteFlyers ==
    /\ pc = "writeFlyers"
    /\ \E o \in WriteOutcomes :
         /\ disk' = [disk EXCEPT !.flyers = Written(@, jsonData, o)]
         /\ pc' = AfterWriteFlyers(o)
         /\ err' = IF o = "ok" THEN err ELSE "error writing flyer JSON file"
    /\ UNCHANGED <<dir, hung, seq, imageFolder, folderURL, batchSize, files, i, workers, wg,
                   results, closed, coord, flyers, ret, metadata, jsonData,
                   metaJsonData, handles, panicked, sent, inspected, runs>>

\* os.WriteFile("imagesMetadata.json", metaJsonData, 0644); return nil
WriteMetadata ==
    /\ pc = "writeMeta"
    /\ \E o \in WriteOutcomes :
         /\ disk' = [disk EXCEPT !.meta = Written(@, metaJsonData, o)]
         /\ pc' = "done"
         /\ err' = IF o = "ok" THEN "nil" ELSE "error writing metadata JSON file"
    /\ UNCHANGED <<dir, hung, seq, imageFolder, folderURL, batchSize, files, i, workers, wg,
                   results, closed, coord, flyers, ret, metadata, jsonData,
                   metaJsonData, handles, panicked, sent, inspected, runs>>

----------------------------------------------------------------------------
(* Specification: one call of ReadAndForward *)

\* the output files before the call: absent, or left by an earlier run
DiskBefore == {[flyers |-> d, meta |-> d] : d \in {Absent, Stale}}

InitCommon ==
    /\ dir \in Listings
    /\ imageFolder \in ImageFolders
    /\ folderURL \in FolderURLs
    /\ batchSize \in 1..MaxBatch
    /\ i = 0
    /\ workers = <<>>
    /\ wg = 0
    /\ results = <<>>
    /\ closed = FALSE
    /\ coord = "none"
    /\ flyers = <<>>
    /\ ret = NoRet
    /\ metadata = NoMetadata
    /\ jsonData = NoData
    /\ metaJsonData = NoData
    /\ err = "nil"
    /\ handles = 0
    /\ panicked = FALSE
    /\ sent = <<>>
    /\ inspected = {}
    /\ runs = <<>>

\* no value is being round-tripped
NoRoundTrip == [pc |-> "none"]

\* the sequential variant is not run
NoSequential == [pc |-> "none"]

Init ==
    /\ InitCommon
    /\ disk \in DiskBefore
    /\ files = <<>>
    /\ pc = "readdir"
    /\ rt = NoRoundTrip
    /\ hung = {}
    /\ seq = NoSequential

Worker(w) == WorkerRange(w) \/ WorkerDecode(w) \/ WorkerSend(w) \/ WorkerDone(w)

BatchProcess ==
    \/ Dispatch
    \/ StartCoordinator
    \/ \E w \in 1..Len(workers) : Worker(w)
    \/ CoordWait
    \/ CoordClose
    \/ Collect
    \/ Return

Next ==
    /\ ~panicked
    /\ \/ ReadDir
       \/ BatchProcess
       \/ BuildDocuments
       \/ WriteFlyers
       \/ WriteMetadata
    /\ UNCHANGED rt

Spec == Init /\ [][Next]_vars

----------------------------------------------------------------------------
(* Specification: TestBatchProcess, which lists the directory once and calls *)
(* BatchProcess on the same listing with one batch size after the other      *)

InitTest ==
    /\ InitCommon
    /\ disk = [flyers |-> Absent, meta |-> Absent]
    /\ files = dir
    /\ pc = "dispatch"
    /\ rt = NoRoundTrip
    /\ hung = {}
    /\ seq = NoSequential

\* the end of one sub-test: its result is kept and the next call starts
NextSubTest ==
    /\ pc = "returned"
    /\ runs' = Append(runs, [batchSize |-> batchSize, flyers |-> ret.flyers, err |-> ret.err])
    /\ IF Len(runs') < MaxRuns THEN
           /\ pc' = "dispatch"
           /\ batchSize' \in 1..MaxBatch
       ELSE
           /\ pc' = "done"
           /\ UNCHANGED batchSize
    /\ i' = 0
    /\ workers' = <<>>
    /\ wg' = 0
    /\ results' = <<>>
    /\ closed' = FALSE
    /\ coord' = "none"
    /\ flyers' = <<>>
    /\ ret' = NoRet
    /\ sent' = <<>>
    /\ inspected' = {}
    /\ UNCHANGED <<dir, hung, seq, imageFolder, folderURL, files, metadata, jsonData,
                   metaJsonData, disk, err, handles, panicked>>

NextTest == ~panicked /\ (BatchProcess \/ NextSubTest) /\ UNCHANGED rt

SpecTest == InitTest /\ [][NextTest]_vars

----------------------------------------------------------------------------
(* Specification: one call of BatchProcess under fair scheduling: as long as *)
(* some goroutine is able to take a step, a step is taken. No step of        *)
(* BatchProcess can be repeated for ever, so this is as strong as fairness   *)
(* to every goroutine.                                                       *)

NextLive == ~panicked /\ BatchProcess /\ UNCHANGED rt

Fairness == WF_vars(NextLive)

SpecLive == InitTest /\ [][NextLive]_vars /\ Fairness

----------------------------------------------------------------------------
(* Specification: one call of BatchProcess, fairly scheduled, on a listing   *)
(* some of whose files block the read of image.Decode for ever (a FIFO       *)
(* without a writer, a stalled network mount)                                *)

\* the files that can block a read: those that os.Open has opened
Blocking(listing) ==
    {k \in 1..Len(listing) : ~SkipEntry(listing[k]) /\ OpenOK(listing[k])}

InitHang ==
    /\ InitCommon
    /\ disk = [flyers |-> Absent, meta |-> Absent]
    /\ files = dir
    /\ pc = "dispatch"
    /\ rt = NoRoundTrip
    /\ hung \in SUBSET Blocking(dir)
    /\ seq = NoSequential

SpecHang == InitHang /\ [][NextLive]_vars /\ Fairness

----------------------------------------------------------------------------
(* Specification: one call of BatchProcess, fairly scheduled, with a batch   *)
(* size that the caller did not check: zero and negative sizes included      *)

AnyBatchSizes == (0 - 1)..MaxBatch

InitAnyBatch ==
    /\ imageFolder \in ImageFolders
    /\ folderURL \in FolderURLs
    /\ batchSize \in AnyBatchSizes
    /\ dir \in Listings
    /\ files = dir
    /\ pc = "dispatch"
    /\ i = 0
    /\ workers = <<>>
    /\ wg = 0
    /\ results = <<>>
    /\ closed = FALSE
    /\ coord = "none"
    /\ flyers = <<>>
    /\ ret = NoRet
    /\ metadata = NoMetadata
    /\ jsonData = NoData
    /\ metaJsonData = NoData
    /\ disk = [flyers |-> Absent, meta |-> Absent]
    /\ err = "nil"
    /\ handles = 0
    /\ panicked = FALSE
    /\ sent = <<>>
    /\ inspected = {}
    /\ runs = <<>>
    /\ rt = NoRoundTrip
    /\ hung = {}
    /\ seq = NoSequential

SpecAnyBatch == InitAnyBatch /\ [][NextLive]_vars /\ Fairness

----------------------------------------------------------------------------
(* The sequential variant kept in main.go: one loop over the listing that    *)
(* inspects each file, reads it again for its base64 form and appends a      *)
(* Flier. It is run on the listing that BatchProcess was given, once         *)
(* BatchProcess has returned.                                                *)

\* decoders registered with package image in the build of the variant
RegisteredSequential == {"gif", "jpeg", "png"}

DecodeOKSequential(f) == ~f.isDir /\ f.codec \in RegisteredSequential

\* getImageResolutionAndOrientation of the variant
GetImageResolutionAndOrientationSequential(imagePath, f) ==
    IF ~OpenOK(f) THEN
        [width |-> 0, height |-> 0, fileExt |-> <<>>, orientation |-> "", err |-> "open"]
    ELSE IF ~DecodeOKSequential(f) THEN
        [width |-> 0, height |-> 0, fileExt |-> <<>>, orientation |-> "", err |-> "decode"]
    ELSE
        [width |-> f.w, height |-> f.h, fileExt |-> FormatLabel(imagePath, f.codec),
         orientation |-> Orientation(f.w, f.h), err |-> "nil"]

\* strings.ToLower on the characters of the format labels
LowerChar(c) ==
    CASE c = "J" -> "j" [] c = "P" -> "p" [] c = "E" -> "e" [] c = "G" -> "g"
      [] c = "N" -> "n" [] c = "I" -> "i" [] c = "F" -> "f" [] c = "T" -> "t"
      [] c = "X" -> "x"
      [] OTHER -> c

ToLower(str) == [k \in 1..Len(str) |-> LowerChar(str[k])]

\* fmt.Sprintf("data:image/%s;base64,%s", strings.ToLower(fileExt), imageBase64);
\* the base64 text stands for the bytes of the file, which its name identifies
ImageData(fileExt, f) ==
    <<"data:image/">> \o ToLower(fileExt) \o <<";base64,">> \o f.name

\* mutant: the url is the bare file name
MakeFlierBareName(fileName, imagePath, r, imageData) ==
    [ID |-> TrimSuffix(fileName, Ext(fileName)),
     Design |-> [TemplateID |-> "template1",
                 Resolution |-> [Width |-> r.width, Height |-> r.height, Unit |-> "px"],
                 Type |-> "image",
                 Tags |-> <<"">>,
                 FileFormat |-> r.fileExt,
                 Orientation |-> r.orientation],
     Language |-> "en-US",
     URL |-> ToSlash(fileName),
     Data |-> [ImageBase64 |-> imageData]]

\* the Flier literal of the variant
MakeFlier(fileName, imagePath, r, imageData) ==
    [ID |-> TrimSuffix(fileName, Ext(fileName)),
     Design |-> [TemplateID |-> "template1",
                 Resolution |-> [Width |-> r.width, Height |-> r.height, Unit |-> "px"],
                 Type |-> "image",
                 Tags |-> <<"">>,
                 FileFormat |-> r.fileExt,
                 Orientation |-> r.orientation],
     Language |-> "en-US",
     URL |-> ToSlash(imagePath),
     Data |-> [ImageBase64 |-> imageData]]

\* the variant at the top of its loop
SequentialStart ==
    [pc |-> "loop", k |-> 0, fliers |-> <<>>, readFailed |-> FALSE, totalFliers |-> 0]

\* one iteration of the loop of the variant: the directory check, the
\* inspector, os.ReadFile (which may fail although os.Open succeeded a
\* moment ago), the Flier literal and the append
SequentialIterate ==
    /\ pc = "returned"
    /\ seq.pc = "loop"
    /\ seq.k < Len(files)
    /\ \E f \in {files[seq.k + 1]} :
       \E imagePath \in {Join(imageFolder, f.name)} :
       \E r \in {GetImageResolutionAndOrientationSequential(imagePath, f)} :
           IF f.isDir \/ r.err # "nil" THEN
               seq' = [seq EXCEPT !.k = @ + 1]
           ELSE
               \E readOK \in BOOLEAN :
                   IF ~readOK THEN
                       seq' = [seq EXCEPT !.k = @ + 1, !.readFailed = TRUE]
                   ELSE
                       seq' = [seq EXCEPT
                                 !.k = @ + 1,
                                 !.fliers = Append(@, MakeFlier(f.name, imagePath, r,
                                                                ImageData(r.fileExt, f)))]
    /\ UNCHANGED <<dir, hung, imageFolder, folderURL, batchSize, files, pc, i, workers,
                   wg, results, closed, coord, flyers, ret, metadata, jsonData,
                   metaJsonData, disk, err, handles, panicked, sent, inspected, runs>>

\* the loop has ended: the Metadata literal with TotalFliers: len(fliers)
SequentialFinish ==
    /\ pc = "returned"
    /\ seq.pc = "loop"
    /\ seq.k >= Len(files)
    /\ seq' = [seq EXCEPT !.pc = "done", !.totalFliers = Len(seq.fliers)]
    /\ UNCHANGED <<dir, hung, imageFolder, folderURL, batchSize, files, pc, i, workers,
                   wg, results, closed, coord, flyers, ret, metadata, jsonData,
                   metaJsonData, disk, err, handles, panicked, sent, inspected, runs>>

\* a GIF image, which only the build of the variant can decode
GifFile ==
    [name |-> <<"f", ".", "g", "i", "f">>, isDir |-> FALSE, readable |-> TRUE,
     codec |-> "gif", w |-> 3, h |-> 1]

ListingsSequential ==
    {l \in {m \o g : m \in Listings, g \in {<<>>, <<GifFile>>}} : Len(l) <= MaxFiles}

InitSequential ==
    /\ imageFolder \in ImageFolders
    /\ folderURL \in FolderURLs
    /\ batchSize \in 1..MaxBatch
    /\ dir \in ListingsSequential
    /\ files = dir
    /\ pc = "dispatch"
    /\ i = 0
    /\ workers = <<>>
    /\ wg = 0
    /\ results = <<>>
    /\ closed = FALSE
    /\ coord = "none"
    /\ flyers = <<>>
    /\ ret = NoRet
    /\ metadata = NoMetadata
    /\ jsonData = NoData
    /\ metaJsonData = NoData
    /\ disk = [flyers |-> Absent, meta |-> Absent]
    /\ err = "nil"
    /\ handles = 0
    /\ panicked = FALSE
    /\ sent = <<>>
    /\ inspected = {}
    /\ runs = <<>>
    /\ rt = NoRoundTrip
    /\ hung = {}
    /\ seq = SequentialStart

NextSequential ==
    /\ ~panicked
    /\ \/ BatchProcess
       \/ SequentialIterate
       \/ SequentialFinish
    /\ UNCHANGED rt

SpecSequential == InitSequential /\ [][NextSequential]_vars

----------------------------------------------------------------------------
(* Specification: TestFlyer and TestMetadata, which marshal a value and      *)
(* unmarshal the text into a fresh value                                     *)

\* strings for the fields that hold file names and paths
Strings == {<<>>, <<"a">>, <<InvalidByte>>, <<"a", InvalidByte, "b">>}

Dimensions == {0, 1920}

FlyerValues ==
    {[ID |-> id,
      Design |-> [TemplateID |-> "template1",
                  Resolution |-> [Width |-> w, Height |-> h, Unit |-> "px"],
                  Type |-> "image",
                  Tags |-> t,
                  FileFormat |-> ff,
                  Orientation |-> o],
      Language |-> l,
      URL |-> u] :
        id \in Strings, w \in Dimensions, h \in Dimensions,
        t \in {<<>>, <<"">>, <<"test">>}, ff \in {<<>>, <<"J", "P", "E", "G">>},
        o \in {"landscape", "portrait"}, l \in {"", "en-US"}, u \in Strings}

MetadataValues ==
    {[Version |-> "1.0",
      LastUpdated |-> "now",
      TotalFlyers |-> n,
      URL |-> u,
      Schema |-> [Format |-> "JSON", Encoding |-> "UTF-8", Filetype |-> "text"]] :
        n \in {0, 10}, u \in Strings}

InitJSON ==
    /\ InitCommon
    /\ dir = <<>>
    /\ batchSize = 1
    /\ folderURL = <<"u">>
    /\ disk = [flyers |-> Absent, meta |-> Absent]
    /\ files = <<>>
    /\ pc = "test"
    /\ hung = {}
    /\ seq = NoSequential
    /\ \/ \E v \in FlyerValues : rt = [pc |-> "start", kind |-> "Flyer", orig |-> v]
       \/ \E v \in MetadataValues : rt = [pc |-> "start", kind |-> "Metadata", orig |-> v]

\* jsonData, err := json.Marshal(value)
TestMarshal ==
    /\ rt.pc = "start"
    /\ rt' = [pc |-> "marshalled", kind |-> rt.kind, orig |-> rt.orig,
              json |-> IF rt.kind = "Flyer" THEN FlyerJSON(rt.orig)
                       ELSE MarshalMetadata(rt.orig)]
    /\ UNCHANGED <<dir, hung, seq, imageFolder, folderURL, batchSize, files, pc, i, workers, wg,
                   results, closed, coord, flyers, ret, metadata, jsonData,
                   metaJsonData, disk, err, handles, panicked, sent, inspected, runs>>

\* err = json.Unmarshal(jsonData, &unmarshaled)
TestUnmarshal ==
    /\ rt.pc = "marshalled"
    /\ rt' = [pc |-> "unmarshalled", kind |-> rt.kind, orig |-> rt.orig,
              json |-> rt.json,
              back |-> IF rt.kind = "Flyer" THEN UnmarshalFlyer(rt.json)
                       ELSE UnmarshalMetadata(rt.json)]
    /\ UNCHANGED <<dir, hung, seq, imageFolder, folderURL, batchSize, files, pc, i, workers, wg,
                   results, closed, coord, flyers, ret, metadata, jsonData,
                   metaJsonData, disk, err, handles, panicked, sent, inspected, runs>>

NextJSON == TestMarshal \/ TestUnmarshal

SpecJSON == InitJSON /\ [][NextJSON]_vars

----------------------------------------------------------------------------
(* Vocabulary of the properties *)

Range(s) == {s[k] : k \in DOMAIN s}

\* the multiset of the elements of a sequence
BagOf(s) == [e \in Range(s) |-> Cardinality({k \in DOMAIN s : s[k] = e})]

\* BatchProcess has returned
Returned == ret.err # "none"

AllWorkersDone == \A w \in 1..Len(workers) : workers[w].pc = "done"

\* the inspector succeeds on entry f
Decodable(f) ==
    GetImageResolutionAndOrientation(Join(imageFolder, f.name), f).err = "nil"

\* the url of the Entry of the file named by f
UrlOf(f) == ToSlash(Join(imageFolder, f.name))

\* how many Entries of the sequence fl belong to entry f
EntriesOf(fl, f) == Cardinality({k \in DOMAIN fl : fl[k].URL = UrlOf(f)})

\* the number of elements of a JSON array, none for null
JSONLen(v) == IF v.kind = "null" THEN 0 ELSE Len(v.items)

\* the indices into files (from 1) of the chunk of worker w
ChunkOf(w) == (workers[w].lo + 1)..workers[w].hi

----------------------------------------------------------------------------
(* C1: when BatchProcess returns, every spawned worker has finished, the    *)
(* result channel is closed and empty, and every Entry that a worker sent   *)
(* is in the returned list.                                                 *)
NoPartialResults ==
    Returned =>
        /\ AllWorkersDone
        /\ wg = 0
        /\ closed
        /\ results = <<>>
        /\ BagOf(sent) \sqsubseteq BagOf(ret.flyers)

NoPartialResultsWitness ==
    /\ Returned
    /\ Len(workers) >= 2
    /\ Len(sent) >= 2
    /\ Len(ret.flyers) >= 2

(* C2: the returned Entries are exactly one per listing element that is not *)
(* a directory and whose inspection succeeds: none for a failed file, none  *)
(* missing, none twice.                                                     *)
OneEntryPerDecodableFile ==
    Returned =>
        /\ \A k \in 1..Len(files) :
             EntriesOf(ret.flyers, files[k]) =
                 IF ~files[k].isDir /\ Decodable(files[k]) THEN 1 ELSE 0
        /\ Len(ret.flyers) =
               Cardinality({k \in 1..Len(files) : ~files[k].isDir /\ Decodable(files[k])})

OneEntryPerDecodableFileWitness ==
    /\ Returned
    /\ Len(files) = 3
    /\ batchSize = 2
    /\ Len(ret.flyers) = 1
    /\ \E k \in 1..Len(files) : files[k].isDir
    /\ \E k \in 1..Len(files) : ~files[k].isDir /\ ~Decodable(files[k])

(* C3: on one listing, calls of BatchProcess with different batch sizes     *)
(* (1, N/2, N, more than N) return lists of the same length and the same    *)
(* Entries, as multisets.                                                   *)
BatchSizeInvariant ==
    \A a, b \in 1..Len(runs) :
        /\ Len(runs[a].flyers) = Len(runs[b].flyers)
        /\ BagOf(runs[a].flyers) = BagOf(runs[b].flyers)

BatchSizeInvariantWitness ==
    /\ Len(runs) = 2
    /\ Len(files) = 3
    /\ runs[1].batchSize = 1
    /\ runs[2].batchSize = Len(files)
    /\ Len(runs[2].flyers) = 2
    /\ \E k \in 1..2 : files[k].isDir \/ ~Decodable(files[k])

(* C4: once the Summary exists, its totalFlyers is the length of the        *)
(* catalog's Flyers list (the Entries collected, not the directory          *)
(* entries), and all workers have finished and the channel is drained.      *)
TotalFlyersIsCatalogLength ==
    metadata # NoMetadata =>
        /\ metadata.TotalFlyers = JSONLen(jsonData.Flyers)
        /\ metaJsonData.totalFlyers = JSONLen(jsonData.Flyers)
        /\ metadata.TotalFlyers = Len(sent)
        /\ AllWorkersDone
        /\ closed
        /\ results = <<>>

TotalFlyersIsCatalogLengthWitness ==
    /\ metadata # NoMetadata
    /\ metadata.TotalFlyers >= 1
    /\ metadata.TotalFlyers < Len(files)

(* C5: a file whose inspection fails does not abort its worker: a finished  *)
(* worker has inspected every file entry of its chunk and sent the Entry of *)
(* every decodable one, no worker dies, and all workers have signalled      *)
(* completion when BatchProcess returns.                                    *)
BadFileDoesNotAbort ==
    /\ \A w \in 1..Len(workers) :
         /\ workers[w].pc = "done" =>
              \A k \in ChunkOf(w) :
                  ~files[k].isDir =>
                      /\ k \in inspected
                      /\ Decodable(files[k]) => EntriesOf(sent, files[k]) >= 1
         /\ workers[w].pc # "panic"
    /\ Returned => AllWorkersDone /\ wg = 0
    /\ ~panicked

BadFileDoesNotAbortWitness ==
    \E w \in 1..Len(workers) :
        /\ workers[w].pc = "done"
        /\ \E k1, k2, k3 \in ChunkOf(w) :
             /\ k1 < k2 /\ k2 < k3
             /\ ~files[k1].isDir /\ OpenOK(files[k1]) /\ ~DecodeOK(files[k1])
             /\ ~files[k2].isDir /\ ~OpenOK(files[k2])
             /\ Decodable(files[k3])
             /\ EntriesOf(sent, files[k3]) = 1

(* C6: per-file failures never reach the caller: BatchProcess returns a nil *)
(* error whatever fails to open or decode, and ReadAndForward returns an    *)
(* error only for a failed directory listing or a failed write (the         *)
(* serialization cannot fail); one valid image next to one non-image file   *)
(* gives a catalog of length 1 and no error.                                *)
PerFileFailuresNotSurfaced ==
    /\ Returned => ret.err = "nil"
    /\ err # "error processing files"
    /\ err = "error reading directory" => files = <<>> /\ ~Returned
    /\ err = "error writing flyer JSON file" => disk.flyers # jsonData
    /\ err = "error writing metadata JSON file" => disk.meta # metaJsonData
    /\ (pc = "done" /\ disk.flyers = jsonData /\ disk.meta = metaJsonData) => err = "nil"
    /\ (Returned /\ files = <<Universe[1], Universe[3]>>) =>
           /\ Len(ret.flyers) = 1
           /\ ret.flyers[1].ID = <<"a">>

PerFileFailuresNotSurfacedWitness ==
    /\ pc = "done"
    /\ err = "nil"
    /\ files = <<Universe[1], Universe[3]>>
    /\ JSONLen(jsonData.Flyers) = 1
    /\ disk.flyers = jsonData

(* C7: when the directory cannot be listed ReadAndForward has returned the  *)
(* directory error at once: no worker was started, no Entry produced, and   *)
(* flyers.json and imagesMetadata.json are as they were.                    *)
ListingFailureIsFatal ==
    err = "error reading directory" =>
        /\ pc = "done"
        /\ workers = <<>>
        /\ coord = "none"
        /\ sent = <<>>
        /\ inspected = {}
        /\ disk \in DiskBefore

ListingFailureIsFatalWitness ==
    /\ err = "error reading directory"
    /\ pc = "done"
    /\ Len(dir) >= 2
    /\ disk.flyers = Stale

\* the entries of the listing an Entry can come from
SourcesOf(e) == {k \in 1..Len(files) : UrlOf(files[k]) = e.URL}

(* C8: every Entry has orientation "landscape" exactly when its width is    *)
(* greater than its height and "portrait" otherwise (so for a square), and  *)
(* it carries the width and height of the decoded image.                    *)
OrientationByWidthAndHeight ==
    \A e \in Range(sent) :
        LET res == e.Design.Resolution
        IN  /\ e.Design.Orientation = "landscape" <=> res.Width > res.Height
            /\ e.Design.Orientation = "portrait" <=> res.Width <= res.Height
            /\ \E k \in SourcesOf(e) : res.Width = files[k].w /\ res.Height = files[k].h

OrientationByWidthAndHeightWitness ==
    /\ \E e \in Range(sent) :
         /\ e.Design.Resolution.Width = e.Design.Resolution.Height
         /\ e.Design.Orientation = "portrait"
    /\ \E e \in Range(sent) : e.Design.Orientation = "landscape"
    /\ \E e \in Range(ret.flyers) : e.Design.Resolution.Width < e.Design.Resolution.Height

(* C9: fileFormat depends on the extension only: every .jpg Entry is        *)
(* "JPEG" and every .png Entry "PNG" whatever codec decoded the content, so *)
(* two Entries with the same extension have the same fileFormat.            *)
FileFormatFromExtension ==
    /\ \A e \in Range(sent) :
         /\ HasSuffix(e.URL, <<".", "j", "p", "g">>) => e.Design.FileFormat = <<"J", "P", "E", "G">>
         /\ HasSuffix(e.URL, <<".", "p", "n", "g">>) => e.Design.FileFormat = <<"P", "N", "G">>
    /\ \A e1, e2 \in Range(sent) :
         Ext(e1.URL) = Ext(e2.URL) => e1.Design.FileFormat = e2.Design.FileFormat

FileFormatFromExtensionWitness ==
    \E e1, e2 \in Range(sent) :
        /\ e1.Design.FileFormat = <<"J", "P", "E", "G">>
        /\ e2.Design.FileFormat = <<"J", "P", "E", "G">>
        /\ \E k \in SourcesOf(e1) : files[k].codec = "jpeg"
        /\ \E k \in SourcesOf(e2) : files[k].codec = "png"

(* C10: a directory in the listing is skipped silently: the inspector is    *)
(* never called on it, nothing is sent for it, nothing fails, and the       *)
(* worker goes on with the next entry of its chunk.                         *)
DirectoriesSkipped ==
    /\ \A k \in inspected : ~files[k].isDir
    /\ \A e \in Range(sent) : \A k \in SourcesOf(e) : ~files[k].isDir
    /\ \A w \in 1..Len(workers) :
         /\ workers[w].pc \in {"decode", "send"} => ~files[Cur(w)].isDir
         /\ workers[w].pc = "done" =>
              \A k \in ChunkOf(w) : Decodable(files[k]) => EntriesOf(sent, files[k]) = 1
    /\ ~panicked
    /\ Returned => ret.err = "nil"

DirectoriesSkippedWitness ==
    \E w \in 1..Len(workers) :
        /\ workers[w].pc = "done"
        /\ \E k1, k2 \in ChunkOf(w) :
             /\ k1 < k2
             /\ files[k1].isDir
             /\ k2 \in inspected
             /\ EntriesOf(sent, files[k2]) = 1

\* the entries of listing that the inspector accepts
DecodableIn(listing) ==
    {k \in 1..Len(listing) : ~listing[k].isDir /\ Decodable(listing[k])}

\* how many Entries of a JSON catalog carry the url of entry f
CatalogEntriesOf(doc, f) ==
    IF doc.Flyers.kind = "null" THEN 0
    ELSE Cardinality({k \in DOMAIN doc.Flyers.items : doc.Flyers.items[k].url = UrlOf(f)})

(* C11: after a ReadAndForward that returned nil both files hold what was   *)
(* marshalled, imagesMetadata.json is never touched before flyers.json      *)
(* holds the catalog, the catalog has exactly one Entry per decodable file  *)
(* of the directory, and totalFlyers in the metadata file is that number.   *)
SuccessWritesBothFiles ==
    /\ (pc = "done" /\ err = "nil") =>
           /\ disk.flyers = jsonData
           /\ disk.meta = metaJsonData
           /\ JSONLen(disk.flyers.Flyers) = Cardinality(DecodableIn(dir))
           /\ disk.meta.totalFlyers = Cardinality(DecodableIn(dir))
           /\ \A k \in 1..Len(dir) :
                CatalogEntriesOf(disk.flyers, dir[k]) =
                    IF k \in DecodableIn(dir) THEN 1 ELSE 0
    /\ disk.meta \notin {Absent, Stale} =>
           /\ jsonData # NoData
           /\ disk.flyers = jsonData

SuccessWritesBothFilesWitness ==
    /\ pc = "done"
    /\ err = "nil"
    /\ Len(dir) = 3
    /\ disk.meta.totalFlyers = 2
    /\ JSONLen(disk.flyers.Flyers) = 2

(* C12: a failed write is returned as the error of the call: after a failed *)
(* write of flyers.json imagesMetadata.json is not written, and a call that *)
(* failed leaves either the two files as they were or a complete pair that  *)
(* belongs together, never a partial output.                                *)
FailureLeavesNoPartialOutput ==
    /\ err = "error writing flyer JSON file" =>
           pc = "done" /\ disk.meta \in {Absent, Stale}
    /\ err = "error writing metadata JSON file" => pc = "done"
    /\ (pc = "done" /\ err # "nil") =>
           \/ disk \in DiskBefore
           \/ disk.flyers = jsonData /\ disk.meta = metaJsonData

\* the place in the listing of the file an Entry comes from
SourceOf(e) == CHOOSE k \in 1..Len(files) : UrlOf(files[k]) = e.URL

(* C13: the returned list is in arrival order: what has been collected,     *)
(* followed by what is buffered, is what the workers sent, in the order of  *)
(* the sends; nothing orders the sends of two workers (both are enabled     *)
(* when both are about to send), and all calls on one listing return the    *)
(* same set of Entries.                                                     *)
OutputInArrivalOrder ==
    /\ flyers \o results = sent
    /\ Returned => ret.flyers = sent
    /\ \A w1, w2 \in 1..Len(workers) :
         (w1 # w2 /\ workers[w1].pc = "send" /\ workers[w2].pc = "send") =>
             ~closed /\ Len(results) + 2 <= Len(files)
    /\ \A a, b \in 1..Len(runs) : Range(runs[a].flyers) = Range(runs[b].flyers)

\* one call returned the Entries of two chunks in input order, the next call
\* on the same listing with the same batch size in the opposite order
OutputInArrivalOrderWitness ==
    /\ Len(runs) = 2
    /\ runs[1].batchSize = 1
    /\ runs[2].batchSize = 1
    /\ Len(runs[1].flyers) = 2
    /\ SourceOf(runs[1].flyers[1]) < SourceOf(runs[1].flyers[2])
    /\ runs[2].flyers = <<runs[1].flyers[2], runs[1].flyers[1]>>

\* str has sub as a substring
Contains(str, sub) ==
    \E k \in 1..(Len(str) - Len(sub) + 1) : SubSeq(str, k, k + Len(sub) - 1) = sub

\* the Entry of file f as the listing and imageFolder alone determine it
EntryFromFile(f) ==
    LET path == Join(imageFolder, f.name)
        r == GetImageResolutionAndOrientation(path, f)
    IN  [ID |-> TrimSuffix(f.name, Ext(f.name)),
         Design |-> [TemplateID |-> "template1",
                     Resolution |-> [Width |-> r.width, Height |-> r.height, Unit |-> "px"],
                     Type |-> "image",
                     Tags |-> <<"">>,
                     FileFormat |-> r.fileExt,
                     Orientation |-> r.orientation],
         Language |-> "en-US",
         URL |-> ToSlash(path)]

(* C14: folderURL reaches the Summary only: the Summary's url is folderURL  *)
(* as given, and every Entry is the one that the listing and imageFolder    *)
(* determine, whatever folderURL is; its url does not contain folderURL.    *)
FolderURLOnlyInSummary ==
    /\ metadata # NoMetadata =>
           /\ metadata.URL = folderURL
           /\ metaJsonData.url = folderURL
    /\ \A e \in Range(sent) :
           /\ \E k \in 1..Len(files) : e = EntryFromFile(files[k])
           /\ ~Contains(e.URL, folderURL)

FolderURLOnlyInSummaryWitness ==
    /\ metadata # NoMetadata
    /\ metadata.URL = <<"v", "/", "i">>
    /\ Len(ret.flyers) >= 2

\* how many Entries of a JSON catalog carry the id
CatalogEntriesWithID(doc, id) ==
    IF doc.Flyers.kind = "null" THEN 0
    ELSE Cardinality({k \in DOMAIN doc.Flyers.items : doc.Flyers.items[k].id = id})

(* C15: the id of an Entry is the file name without its extension, and      *)
(* Entries with the same id are all kept: a.jpg and a.png give two Entries  *)
(* with id "a", both in the catalog and both counted in totalFlyers.        *)
IDIsStemNoDeduplication ==
    /\ \A e \in Range(sent) :
         \E k \in SourcesOf(e) :
             /\ e.ID \o Ext(files[k].name) = files[k].name
             /\ ~Contains(e.ID, <<".">>)
    /\ metadata # NoMetadata =>
         /\ \A k \in DecodableIn(files) : CatalogEntriesOf(jsonData, files[k]) = 1
         /\ metadata.TotalFlyers = Cardinality(DecodableIn(files))
         /\ (Len(files) >= 2 /\ files[1] = Universe[1] /\ files[2] = Universe[2]) =>
                CatalogEntriesWithID(jsonData, <<"a">>) = 2

IDIsStemNoDeduplicationWitness ==
    /\ metadata # NoMetadata
    /\ metadata.TotalFlyers = 3
    /\ CatalogEntriesWithID(jsonData, <<"a">>) = 2
    /\ CatalogEntriesWithID(jsonData, <<"e">>) = 1

\* no string of the value holds an invalid UTF-8 byte
ValidUTF8(str) == \A k \in 1..Len(str) : str[k] # InvalidByte

ValidStrings(kind, v) ==
    IF kind = "Flyer"
    THEN ValidUTF8(v.ID) /\ ValidUTF8(v.Design.FileFormat) /\ ValidUTF8(v.URL)
    ELSE ValidUTF8(v.URL)

(* C16 as stated: marshalling a Flyer or a Metadata value and unmarshalling *)
(* the text gives back an equal value, for every field value.               *)
RoundTripEveryValue ==
    rt.pc = "unmarshalled" => rt.back = rt.orig

(* C16: marshalling a Flyer or a Metadata value whose strings are valid     *)
(* UTF-8 and unmarshalling the text gives back an equal value.              *)
RoundTripValidUTF8 ==
    (rt.pc = "unmarshalled" /\ ValidStrings(rt.kind, rt.orig)) => rt.back = rt.orig

RoundTripValidUTF8Witness ==
    /\ rt.pc = "unmarshalled"
    /\ rt.kind = "Flyer"
    /\ rt.orig.ID = <<"a">>
    /\ rt.orig.URL = <<"a">>
    /\ rt.orig.Design.Tags = <<"test">>
    /\ rt.orig.Design.Resolution.Width = 1920
    /\ rt.orig.Language = "en-US"
    /\ rt.back = rt.orig

\* ceil(n / size)
CeilDiv(n, size) == (n + size - 1) \div size

(* C17: the chunks are contiguous, disjoint and cover every index once;     *)
(* each has batchSize entries except the last, which may be shorter but is  *)
(* not empty; after the dispatch loop there are ceil(len/batchSize)         *)
(* workers, one per chunk.                                                  *)
ChunksPartitionListing ==
    LET n == Len(files)
        count == CeilDiv(n, batchSize)
    IN  /\ Len(workers) <= count
        /\ \A w \in 1..Len(workers) :
             /\ workers[w].lo = (w - 1) * batchSize
             /\ workers[w].lo < workers[w].hi
             /\ workers[w].hi <= n
             /\ w < count => workers[w].hi - workers[w].lo = batchSize
             /\ w = count => workers[w].hi = n
             /\ w > 1 => workers[w].lo = workers[w - 1].hi
        /\ coord # "none" =>
             /\ Len(workers) = count
             /\ \A k \in 1..n : Cardinality({w \in 1..Len(workers) : k \in ChunkOf(w)}) = 1
             /\ n = 0 => workers = <<>>
             /\ (n > 0 /\ batchSize >= n) => Len(workers) = 1

ChunksPartitionListingWitness ==
    /\ coord # "none"
    /\ Len(files) = 3
    /\ batchSize = 2
    /\ Len(workers) = 2
    /\ workers[2].hi - workers[2].lo = 1

(* C18: the channel is closed once, by the coordinator, after every spawned *)
(* worker has signalled completion; no worker sends on the closed channel;  *)
(* the coordinator waits only after the dispatch loop has made all its      *)
(* wg.Add calls, and the counter is the number of unfinished workers.       *)
ClosedOnceAfterAllWorkers ==
    /\ ~panicked
    /\ closed <=> coord = "done"
    /\ coord \in {"close", "done"} => AllWorkersDone /\ wg = 0
    /\ coord # "none" => i >= Len(files) /\ pc # "dispatch"
    /\ wg = Cardinality({w \in 1..Len(workers) : workers[w].pc # "done"})
    /\ \A w \in 1..Len(workers) :
         /\ workers[w].pc # "panic"
         /\ workers[w].pc # "done" => ~closed

ClosedOnceAfterAllWorkersWitness ==
    /\ closed
    /\ Len(workers) = 3
    /\ Len(sent) >= 2
    /\ results # <<>>

(* C19: the channel never holds more than len(files) Entries and a worker   *)
(* that is about to send finds room in it, also while nothing has been      *)
(* collected yet.                                                           *)
SendNeverBlocks ==
    /\ Len(results) <= Len(files)
    /\ Len(sent) <= Len(files)
    /\ \A w \in 1..Len(workers) :
         workers[w].pc = "send" => ~closed /\ Len(results) < ChanCap(Len(files))

SendNeverBlocksWitness ==
    /\ Len(files) = 3
    /\ flyers = <<>>
    /\ Len(results) = 2
    /\ \E w \in 1..Len(workers) : workers[w].pc = "send"

(* C20: under fair scheduling every call of BatchProcess returns, with all  *)
(* workers finished, the channel closed and the collecting loop ended.      *)
BatchProcessReturns ==
    <>(Returned /\ AllWorkersDone /\ closed /\ results = <<>>)

BatchProcessReturnsWitness ==
    /\ Returned
    /\ Len(workers) = 3
    /\ Len(ret.flyers) = 3

\* worker w is inside image.Decode on a file whose read never returns
HungWorker(w) ==
    /\ w <= Len(workers)
    /\ workers[w].pc = "decode"
    /\ Cur(w) \in hung

(* C21: nothing ends an inspection that does not return: from the moment a  *)
(* worker is inside image.Decode on a file whose read blocks, for ever      *)
(* after that worker is still there, the counter is above zero, the         *)
(* coordinator has not closed the channel and BatchProcess has not          *)
(* returned.                                                                *)
HungInspectionBlocksReturn ==
    \A w \in 1..MaxFiles :
        [](HungWorker(w) =>
              [](/\ HungWorker(w)
                 /\ wg > 0
                 /\ coord \notin {"close", "done"}
                 /\ ~closed
                 /\ pc # "returned"
                 /\ ~Returned))

\* one worker hangs while every other worker has finished and all their
\* Entries have been collected: the coordinator waits, the caller drains
HungInspectionBlocksReturnWitness ==
    /\ Len(workers) = 3
    /\ \E w \in 1..Len(workers) :
         /\ HungWorker(w)
         /\ \A v \in 1..Len(workers) : v # w => workers[v].pc = "done"
    /\ coord = "wait"
    /\ pc = "drain"
    /\ results = <<>>
    /\ Len(flyers) = 2
    /\ flyers = sent

(* C22: the file handles that are open are exactly those of the inspector  *)
(* calls that are between os.Open and their return: a call that has        *)
(* returned, with success, with a decode error or with an open error, has   *)
(* left none open, and none is open when BatchProcess has returned.         *)
HandlesReleased ==
    /\ handles = Cardinality({w \in 1..Len(workers) : workers[w].pc = "decode"})
    /\ AllWorkersDone => handles = 0
    /\ Returned => handles = 0

\* BatchProcess has returned after a successful inspection, one that failed
\* in image.Decode and one that failed in os.Open
HandlesReleasedWitness ==
    /\ Returned
    /\ handles = 0
    /\ files = <<Universe[1], Universe[3], Universe[5]>>
    /\ inspected = {1, 2, 3}
    /\ Len(ret.flyers) = 1

\* the chunk (counted from 0) that holds index k of the listing
ChunkIndex(k) == (k - 1) \div batchSize

\* Entries of one chunk stand in the list fl in the order of their files
InChunkOrder(fl) ==
    \A a, b \in 1..Len(fl) :
        (a < b /\ ChunkIndex(SourceOf(fl[a])) = ChunkIndex(SourceOf(fl[b]))) =>
            SourceOf(fl[a]) < SourceOf(fl[b])

(* C23: a worker goes through its chunk one entry after the other, so the   *)
(* Entries of one chunk are sent, collected and returned in the order of    *)
(* their files in the listing, in every interleaving; with a single worker  *)
(* (batchSize >= len(files)) the returned list is in input order.           *)
ChunkOrderPreserved ==
    /\ InChunkOrder(sent)
    /\ InChunkOrder(flyers)
    /\ Returned => InChunkOrder(ret.flyers)
    /\ \A w \in 1..Len(workers) :
         \A a \in 1..Len(sent) :
             SourceOf(sent[a]) \in ChunkOf(w) =>
                 SourceOf(sent[a]) <= workers[w].lo + workers[w].k
    /\ (Returned /\ batchSize >= Len(files)) =>
           \A a, b \in 1..Len(ret.flyers) :
               a < b => SourceOf(ret.flyers[a]) < SourceOf(ret.flyers[b])

\* the Entry of the second chunk came first, the two Entries of the first
\* chunk follow in the order of their files
ChunkOrderPreservedWitness ==
    /\ Returned
    /\ batchSize = 2
    /\ Len(ret.flyers) = 3
    /\ SourceOf(ret.flyers[1]) = 3
    /\ SourceOf(ret.flyers[2]) = 1
    /\ SourceOf(ret.flyers[3]) = 2

\* the inspections that have returned with success so far
InspectedSuccessfully ==
    {k \in inspected :
        /\ ~files[k].isDir
        /\ Decodable(files[k])
        /\ \A w \in 1..Len(workers) : ~(workers[w].pc = "decode" /\ Cur(w) = k)}

\* a step that takes an Entry out of the channel is a step of the collecting
\* loop, a step of a worker leaves what is collected and buffered in place
ChannelDiscipline ==
    /\ Len(results') < Len(results) =>
           /\ pc = "drain"
           /\ workers' = workers
           /\ results' = Tail(results)
           /\ flyers' = Append(flyers, Head(results))
    /\ workers' # workers =>
           /\ flyers' = flyers
           /\ Len(results') >= Len(results)
           /\ SubSeq(results', 1, Len(results)) = results

(* C24: what has been collected plus what is buffered is what has been      *)
(* sent; every successful inspection has led to a send or to a worker that  *)
(* is about to send, so the sends are at most the successful inspections;   *)
(* only the collecting loop takes Entries out of the channel (from its      *)
(* head, into the list), and a step of a worker only adds to its tail.      *)
ConservationInTransit ==
    /\ [](/\ Len(flyers) + Len(results) = Len(sent)
          /\ Len(sent) + Cardinality({w \in 1..Len(workers) : workers[w].pc = "send"})
                 = Cardinality(InspectedSuccessfully)
          /\ Len(sent) <= Cardinality(InspectedSuccessfully))
    /\ [][ChannelDiscipline]_vars

\* one Entry collected, one buffered, a third about to be sent
ConservationInTransitWitness ==
    /\ Len(flyers) = 1
    /\ Len(results) = 1
    /\ Len(sent) = 2
    /\ \E w \in 1..Len(workers) : workers[w].pc = "send"
    /\ Cardinality(InspectedSuccessfully) = 3

\* what the claim compares of an Entry
Compared(e) ==
    [id |-> e.ID, resolution |-> e.Design.Resolution, fileFormat |-> e.Design.FileFormat,
     orientation |-> e.Design.Orientation, url |-> e.URL]

ComparedList(fl) == [k \in 1..Len(fl) |-> Compared(fl[k])]

\* the two inspectors give the same results on every file of the listing
SameInspectionOutcomes ==
    \A k \in 1..Len(files) :
        LET path == Join(imageFolder, files[k].name)
        IN  GetImageResolutionAndOrientation(path, files[k]) =
                GetImageResolutionAndOrientationSequential(path, files[k])

\* the list of BatchProcess is a permutation of the list of the variant, and
\* the two counts are the same
PermutationOfSequential ==
    /\ BagOf(ComparedList(ret.flyers)) = BagOf(ComparedList(seq.fliers))
    /\ Len(ret.flyers) = Len(seq.fliers)
    /\ TotalFlyers(ret.flyers, files) = seq.totalFliers

BatchSizeNotEnforced ==
    /\ [](( batchSize = 0 /\ files # <<>> ) =>
              /\ pc = "dispatch"
              /\ i = 0
              /\ coord = "none"
              /\ ~closed
              /\ ~Returned
              /\ \A w \in 1..Len(workers) : workers[w].lo = 0 /\ workers[w].hi = 0)
    /\ ( batchSize = 0 /\ files # <<>> ) => <>(Len(workers) = MaxWorkers)
    /\ files = <<>> =>
           /\ [](workers = <<>> /\ ~panicked)
           /\ <>(Returned /\ ret.flyers = <<>> /\ ret.err = "nil")

\* more workers than files have been started and have finished, and the
\* dispatch loop is still at index 0
BatchSizeNotEnforcedWitness ==
    /\ batchSize = 0
    /\ Len(files) >= 2
    /\ Len(workers) > Len(files)
    /\ AllWorkersDone
    /\ wg = 0
    /\ pc = "dispatch"
    /\ i = 0

====
